---- MODULE Spec2Model ----
(***************************************************************************)
(* Solver adapters of rust-lp-modeler: the GLPK and Gurobi external-process *)
(* adapters (src/solvers/glpk.rs, src/solvers/gurobi.rs) and the in-process *)
(* minilp adapter (src/solvers/minilp.rs).                                  *)
(*                                                                          *)
(* Text is modelled by TLA+ strings (Len, SubSeq and \o act on them), so    *)
(* slicing, splitting, searching and parsing are computed character by      *)
(* character.  f64/f32 values are modelled by integers: every number used   *)
(* is a small integer, on which f64 arithmetic is exact.                    *)
(***************************************************************************)
EXTENDS Integers, Sequences, FiniteSets, TLC

VARIABLES
    \* ---- external-process adapters (GlpkSolver::run, GurobiSolver::run)
    solver,          \* which adapter runs: "Glpk" or "Gurobi"
    pc,              \* position inside run
    modelFile,       \* TRUE while "<unique_name>.lp" exists on disk
    removeAttempts,  \* calls of fs::remove_file(&file_model) made so far
    cmd,             \* outcome of Command::output()
    solFile,         \* the solution file read_solution found
    readCount,       \* calls of read_specific_solution made so far
    parsed,          \* what read_specific_solution produced
    result,          \* what run returns
    \* ---- decompose_expression
    dRaw,            \* the expression handed to decompose_expression
    dExpr,           \* the expression after expr.simplify()
    dState,          \* the work stack idxs, the table decomposed, the node in hand
    dpc,             \* position inside decompose_expression
    \* ---- MiniLpSolver::run
    mProblem,        \* the LpProblem handed to run
    mpc,             \* position inside run
    mNext,           \* position of the next constraint of the loop
    mVariables,      \* minilp_variables: name -> backend variable index
    mPb,             \* the minilp::Problem being built
    mOrdered,        \* ordered_vars / variable_names
    mSolved,         \* TRUE once minilp_pb.solve() was called
    mBackend,        \* what minilp_pb.solve() returned
    mResult          \* what run returns

runVars == <<solver, pc, modelFile, removeAttempts, cmd, solFile, readCount, parsed, result>>

decVars == <<dRaw, dExpr, dState, dpc>>

mlpVars == <<mProblem, mpc, mNext, mVariables, mPb, mOrdered, mSolved, mBackend, mResult>>

vars == <<runVars, decVars, mlpVars>>

-----------------------------------------------------------------------------
(* Bounds of the explored inputs *)

\* GLPK: at most this many column lines follow the column header
MaxCols == 2
\* Gurobi: at most this many lines in a solution file
MaxLines == 3
\* decompose_expression: at most this many operator nodes in an explored tree
MaxOps == 2
\* decompose_large: the number of terms of the explored sum
SumTerms == 3
\* MiniLpSolver::run: at most this many constraints in an explored problem
MaxConstraints == 2

-----------------------------------------------------------------------------
(* Results: Result<Solution, String>, or a panic that unwinds out of the call *)

NoResults == [n \in {} |-> 0]

Ok(status, results) == [kind |-> "Ok", status |-> status, results |-> results, msg |-> ""]

Err(msg) == [kind |-> "Err", status |-> "", results |-> NoResults, msg |-> msg]

Panic == [kind |-> "Panic", status |-> "", results |-> NoResults, msg |-> ""]

None == [kind |-> "None", status |-> "", results |-> NoResults, msg |-> ""]

-----------------------------------------------------------------------------
(* Text *)

\* one item of BufRead::lines(): Ok(text), or Err when the bytes of the line
\* are not valid UTF-8
Line(text) == [ok |-> TRUE, text |-> text]

BadLine == [ok |-> FALSE, text |-> ""]

CharAt(s, i) == SubSeq(s, i, i)

IsWhitespace(c) == c \in {" ", "\t"}

RECURSIVE SplitWs(_, _, _, _)
SplitWs(s, i, cur, acc) ==
    IF i > Len(s)
    THEN IF cur = "" THEN acc ELSE Append(acc, cur)
    ELSE IF IsWhitespace(CharAt(s, i))
         THEN SplitWs(s, i + 1, "", IF cur = "" THEN acc ELSE Append(acc, cur))
         ELSE SplitWs(s, i + 1, cur \o CharAt(s, i), acc)

\* str::split_whitespace, collected
split_whitespace(s) == SplitWs(s, 1, "", <<>>)

\* str::contains
contains(s, pat) ==
    \E i \in 1..(Len(s) - Len(pat) + 1) : SubSeq(s, i, i + Len(pat) - 1) = pat

Digits == "0123456789"

IsDigit(c) == \E d \in 1..10 : CharAt(Digits, d) = c

DigitVal(c) == (CHOOSE d \in 1..10 : CharAt(Digits, d) = c) - 1

RECURSIVE DigitsVal(_, _, _)
DigitsVal(s, i, acc) ==
    IF i > Len(s) THEN acc ELSE DigitsVal(s, i + 1, 10 * acc + DigitVal(CharAt(s, i)))

AllDigits(s) == Len(s) > 0 /\ \A i \in 1..Len(s) : IsDigit(CharAt(s, i))

\* str::parse::<usize>: an optional '+', then one or more digits
parse_usize(s) ==
    LET body == IF Len(s) > 0 /\ CharAt(s, 1) = "+" THEN SubSeq(s, 2, Len(s)) ELSE s
    IN  IF AllDigits(body)
        THEN [ok |-> TRUE, val |-> DigitsVal(body, 1, 0)]
        ELSE [ok |-> FALSE, val |-> 0]

\* str::parse::<f64> and parse::<f32>, on the tokens explored here: an
\* optional sign and digits parse to their value, a word of letters does not
parse_float(s) ==
    LET signed == Len(s) > 0 /\ CharAt(s, 1) \in {"+", "-"}
        body == IF signed THEN SubSeq(s, 2, Len(s)) ELSE s
        mag == DigitsVal(body, 1, 0)
    IN  IF AllDigits(body)
        THEN [ok |-> TRUE, val |-> IF signed /\ CharAt(s, 1) = "-" THEN 0 - mag ELSE mag]
        ELSE [ok |-> FALSE, val |-> 0]

\* HashMap::insert
Insert(m, k, v) == [x \in DOMAIN m \cup {k} |-> IF x = k THEN v ELSE m[x]]

\* Iterator::nth / next on the lines of a file: the item at 1-based position i
ItemAt(f, i) == IF i <= Len(f) THEN <<f[i]>> ELSE <<>>

-----------------------------------------------------------------------------
(* GlpkSolver::read_specific_solution *)

read_size(line) ==
    IF line # <<>> /\ line[1].ok
    THEN LET toks == split_whitespace(line[1].text)
         IN  IF Len(toks) >= 2
             THEN LET v == parse_usize(toks[2])
                  IN  IF v.ok THEN [ok |-> TRUE, val |-> v.val]
                      ELSE [ok |-> FALSE, val |-> 0]
             ELSE [ok |-> FALSE, val |-> 0]
    ELSE [ok |-> FALSE, val |-> 0]

\* a match whose last arm falls back to a status instead of returning Err
GlpkStatusOf_Fallback(token) ==
    CASE token \in {"INTEGER OPTIMAL", "OPTIMAL"} -> "Optimal"
      [] token \in {"INFEASIBLE (FINAL)", "INTEGER EMPTY"} -> "Infeasible"
      [] token = "UNDEFINED" -> "NotSolved"
      [] token \in {"INTEGER UNDEFINED", "UNBOUNDED"} -> "Unbounded"
      [] OTHER -> "NotSolved"

\* the match on &status_line[12..]; "" stands for the arm that returns Err
GlpkStatusOf(token) ==
    CASE token \in {"INTEGER OPTIMAL", "OPTIMAL"} -> "Optimal"
      [] token \in {"INFEASIBLE (FINAL)", "INTEGER EMPTY"} -> "Infeasible"
      [] token = "UNDEFINED" -> "NotSolved"
      [] token \in {"INTEGER UNDEFINED", "UNBOUNDED"} -> "Unbounded"
      [] OTHER -> ""

\* the loop `for _ in 0..col` over result_lines, from 1-based position i
RECURSIVE GlpkColumns(_, _, _, _, _)
GlpkColumns(f, i, left, status, vars_value) ==
    IF left = 0
    THEN Ok(status, vars_value)
    ELSE LET item == ItemAt(f, i)
         IN  IF item = <<>> \/ ~item[1].ok
             THEN Err("Incorrect solution format: Not all columns are present")
             ELSE LET result_line == split_whitespace(item[1].text)
                  IN  IF Len(result_line) >= 4
                      THEN LET n == parse_float(result_line[4])
                           IN  IF n.ok
                               THEN GlpkColumns(f, i + 1, left - 1, status,
                                                Insert(vars_value, result_line[2], n.val))
                               ELSE Err("invalid float literal")
                      ELSE Err("Incorrect solution format: Column specification has to few fields")

Glpk_read_specific_solution(f) ==
    LET row == read_size(ItemAt(f, 2))
        col == read_size(ItemAt(f, 3))
        status_item == ItemAt(f, 5)
    IN  IF ~row.ok THEN Err("Incorrect solution format")
        ELSE IF ~col.ok THEN Err("Incorrect solution format")
        ELSE IF status_item = <<>> \/ ~status_item[1].ok
             THEN Err("Incorrect solution format: No solution status found")
        ELSE LET status_line == status_item[1].text
             IN  IF Len(status_line) < 12
                 THEN Panic
                 ELSE LET status == GlpkStatusOf(SubSeq(status_line, 13, Len(status_line)))
                      IN  IF status = ""
                          THEN Err("Incorrect solution format: Unknown solution status")
                          ELSE GlpkColumns(f, 5 + row.val + 7 + 1, col.val, status, NoResults)

-----------------------------------------------------------------------------
(* GurobiSolver::read_specific_solution *)

\* buffer.split(" ").next(): the text before the first " "; str::split always
\* yields a first piece, the empty one for an empty buffer
RECURSIVE FirstPiece(_, _)
FirstPiece(s, i) ==
    IF i > Len(s) \/ CharAt(s, i) = " " THEN SubSeq(s, 1, i - 1) ELSE FirstPiece(s, i + 1)

SplitNext(buffer) == <<FirstPiece(buffer, 1)>>

\* the loop `for line in file.lines()`, from 1-based position i
RECURSIVE GurobiLines(_, _, _)
GurobiLines(f, i, vars_value) ==
    IF i > Len(f)
    THEN Ok("Optimal", vars_value)
    ELSE IF ~f[i].ok
         THEN Panic
         ELSE LET l == f[i].text
              IN  IF Len(l) > 0 /\ CharAt(l, 1) = "#"
                  THEN GurobiLines(f, i + 1, vars_value)
                  ELSE LET result_line == split_whitespace(l)
                       IN  IF Len(result_line) = 2
                           THEN LET n == parse_float(result_line[2])
                                IN  IF n.ok
                                    THEN GurobiLines(f, i + 1,
                                                     Insert(vars_value, result_line[1], n.val))
                                    ELSE Err("invalid float literal")
                           ELSE Err("Incorrect solution format")

Gurobi_read_specific_solution(f) ==
    LET first == ItemAt(f, 1)
        buffer == IF first # <<>> /\ first[1].ok THEN first[1].text ELSE ""
    IN  IF SplitNext(buffer) # <<>>
        THEN GurobiLines(f, 2, NoResults)
        ELSE Err("Incorrect solution format")

-----------------------------------------------------------------------------
(* SolverWithSolutionParsing::read_solution: opens the solution file and    *)
(* hands it to read_specific_solution                                       *)

read_solution(s, file) ==
    IF ~file.present
    THEN Err("Cannot open file")
    ELSE IF s = "Glpk"
         THEN Glpk_read_specific_solution(file.lines)
         ELSE Gurobi_read_specific_solution(file.lines)

-----------------------------------------------------------------------------
(* The arms of run *)

\* GlpkSolver::new / GurobiSolver::new
SolverName(s) == s

CommandName(s) == IF s = "Glpk" THEN "glpsol" ELSE "gurobi_cl"

\* ExitStatus::to_string
StatusText(code) == "exit status: " \o code

\* ExitStatus::success
Success(code) == code = "0"

\* String::from_utf8_lossy: invalid bytes become U+FFFD, written "?" here
Lossy(bytes) == IF bytes.valid THEN bytes.text ELSE bytes.text \o "?"

SpawnError(s) == Err("Error running the " \o SolverName(s) \o " solver")

GlpkExitFailure(r) == Err(StatusText(r.code))

GurobiExitFailure(r) ==
    Err(CommandName("Gurobi") \o " exited with " \o StatusText(r.code)
        \o "\n\nSTDOUT:\n" \o Lossy(r.stdout)
        \o "\n\nSTDERR:\n" \o Lossy(r.stderr) \o "\n\n")

ExitFailure(s, r) == IF s = "Glpk" THEN GlpkExitFailure(r) ELSE GurobiExitFailure(r)

\* the status GurobiSolver::run derives from the command's standard output
GurobiStatusOf(text) ==
    IF contains(text, "Optimal solution found") THEN "Optimal"
    ELSE IF contains(text, "infesible") THEN "Infeasible"
    ELSE "SubOptimal"

\* a map that keeps the status read_specific_solution produced
WithStatus_Keep(status, read) == read

\* .map(|solution| Solution { status, ..solution.clone() })
WithStatus(status, read) ==
    IF read.kind = "Ok" THEN Ok(status, read.results) ELSE read

\* the Ok(r) arm of run on a successful exit, given the solution file found
ExitSuccess(s, r, file) ==
    IF s = "Glpk"
    THEN read_solution(s, file)
    ELSE IF ~r.stdout.valid
         THEN Panic
         ELSE WithStatus(GurobiStatusOf(r.stdout.text), read_solution(s, file))

-----------------------------------------------------------------------------
(* Explored inputs *)

SeqsUpTo(S, n) == UNION {[1..k -> S] : k \in 0..n}

Bytes(text) == [valid |-> TRUE, text |-> text]

NotUtf8 == [valid |-> FALSE, text |-> "Optimal solution"]

Stdouts(s) ==
    IF s = "Glpk"
    THEN {Bytes("GLPSOL: GLPK LP/MIP Solver")}
    ELSE {Bytes("Optimal solution found (tolerance 1.00e-04)"),
          Bytes("Model is infesible"),
          Bytes("infesible? Optimal solution found"),
          Bytes("Model is infeasible or unbounded"),
          Bytes("Time limit reached"),
          NotUtf8}

Stderrs == {Bytes("error reading model")}

FailCodes == {"1"}

GlpkRowLines == {Line("Rows:       1"), Line("Rows:       0"), Line("Rows:       x"),
                 Line("Rows:"), BadLine}

GlpkColLines == {Line("Columns:    0"), Line("Columns:    1"), Line("Columns:    2"),
                 Line("Columns:    -1"), Line("Columns:")}

GlpkStatusLines ==
    {Line("Status:     INTEGER OPTIMAL"), Line("Status:     OPTIMAL"),
     Line("Status:     INFEASIBLE (FINAL)"), Line("Status:     INTEGER EMPTY"),
     Line("Status:     UNDEFINED"), Line("Status:     INTEGER UNDEFINED"),
     Line("Status:     UNBOUNDED"), Line("Status:     FEASIBLE"),
     Line("Status:      OPTIMAL"), Line("Status:     "), Line("Status:"),
     Line("OPTIMAL"), BadLine}

GlpkVarLines == {Line("     1 a            B              5             0"),
                 Line("     2 b            B            -20"),
                 Line("     1 a            B"),
                 Line("     1 a            B              x             0"),
                 BadLine}

GlpkFile(rowLine, colLine, statusLine, varLines) ==
    <<Line("Problem:    lp"), rowLine, colLine, Line("Non-zeros:  2"), statusLine,
      Line("Objective:  obj = 5 (MAXimum)"), Line(""),
      Line("   No.   Row name   St   Activity     Lower bound   Upper bound"),
      Line("------ ------------ -- ------------- ------------- -------------"),
      Line("     1 c1           NU            10                          10"),
      Line(""),
      Line("   No. Column name  St   Activity     Lower bound   Upper bound"),
      Line("------ ------------ -- ------------- ------------- -------------")>>
    \o varLines

\* files that differ from a well-formed one in the status line, in the row
\* line, or by being cut short; column count and column lines vary freely
GlpkFiles ==
    LET varSeqs == SeqsUpTo(GlpkVarLines, MaxCols)
    IN  {GlpkFile(Line("Rows:       1"), c, s, vs) :
            c \in GlpkColLines, s \in GlpkStatusLines, vs \in varSeqs}
        \cup {GlpkFile(r, c, Line("Status:     OPTIMAL"), vs) :
            r \in GlpkRowLines, c \in GlpkColLines, vs \in varSeqs}
        \cup {SubSeq(GlpkFile(Line("Rows:       1"), Line("Columns:    1"),
                              Line("Status:     OPTIMAL"), vs), 1, k) :
            k \in 0..12, vs \in varSeqs}

GurobiFileLines == {Line("# Objective value = 5"), Line("a 5"), Line("b -20"),
                    Line("a"), Line("a x"), Line(""), BadLine}

GurobiFiles == SeqsUpTo(GurobiFileLines, MaxLines)

SolutionFiles(s) ==
    {[present |-> FALSE, lines |-> <<>>]}
    \cup {[present |-> TRUE, lines |-> f] : f \in IF s = "Glpk" THEN GlpkFiles ELSE GurobiFiles}

NoCmd == [spawned |-> FALSE, code |-> "", stdout |-> Bytes(""), stderr |-> Bytes("")]

NoFile == [present |-> FALSE, lines |-> <<>>]

-----------------------------------------------------------------------------
(* GlpkSolver::run and GurobiSolver::run *)

\* problem.write_lp(file_model) returned Ok: the model file exists
WriteLpOk ==
    /\ pc = "start"
    /\ pc' = "command"
    /\ modelFile' = TRUE
    /\ UNCHANGED <<solver, removeAttempts, cmd, solFile, readCount, parsed, result>>
    /\ UNCHANGED <<decVars, mlpVars>>

\* problem.write_lp(file_model) returned Err, before or after creating the
\* file: run returns Err(e.to_string()) at once
WriteLpErr ==
    /\ pc = "start"
    /\ \E created \in BOOLEAN : modelFile' = created
    /\ result' = Err("write_lp failed")
    /\ pc' = "returned"
    /\ UNCHANGED <<solver, removeAttempts, cmd, solFile, readCount, parsed>>
    /\ UNCHANGED <<decVars, mlpVars>>

\* Command::output() returned Err: the command could not be spawned
CommandSpawnErr ==
    /\ pc = "command"
    /\ cmd' = NoCmd
    /\ result' = SpawnError(solver)
    /\ pc' = "remove"
    /\ UNCHANGED <<solver, modelFile, removeAttempts, solFile, readCount, parsed>>
    /\ UNCHANGED <<decVars, mlpVars>>

\* the command ran and r.status.success() is false
CommandExitFailure ==
    /\ pc = "command"
    /\ \E code \in FailCodes, out \in Stdouts(solver), err \in Stderrs :
          /\ cmd' = [spawned |-> TRUE, code |-> code, stdout |-> out, stderr |-> err]
          /\ result' = ExitFailure(solver, cmd')
    /\ pc' = "remove"
    /\ UNCHANGED <<solver, modelFile, removeAttempts, solFile, readCount, parsed>>
    /\ UNCHANGED <<decVars, mlpVars>>

\* the command ran and r.status.success() is true
CommandExitSuccess ==
    /\ pc = "command"
    /\ \E out \in Stdouts(solver), err \in Stderrs :
          cmd' = [spawned |-> TRUE, code |-> "0", stdout |-> out, stderr |-> err]
    /\ pc' = "read"
    /\ UNCHANGED <<solver, modelFile, removeAttempts, solFile, readCount, parsed, result>>
    /\ UNCHANGED <<decVars, mlpVars>>

\* String::from_utf8(r.stdout).expect("") panics: nothing after it runs
StdoutPanic ==
    /\ pc = "read"
    /\ solver = "Gurobi"
    /\ ~cmd.stdout.valid
    /\ result' = ExitSuccess(solver, cmd, NoFile)
    /\ pc' = "panicked"
    /\ UNCHANGED <<solver, modelFile, removeAttempts, cmd, solFile, readCount, parsed>>
    /\ UNCHANGED <<decVars, mlpVars>>

\* self.read_solution(&self.temp_solution_file, Some(problem)), on whatever
\* solution file the command left behind
ReadSolution ==
    /\ pc = "read"
    /\ solver = "Gurobi" => cmd.stdout.valid
    /\ \E file \in SolutionFiles(solver) :
          /\ solFile' = file
          /\ parsed' = read_solution(solver, file)
          /\ readCount' = IF file.present THEN readCount + 1 ELSE readCount
          /\ result' = ExitSuccess(solver, cmd, file)
    /\ pc' = IF result'.kind = "Panic" THEN "panicked" ELSE "remove"
    /\ UNCHANGED <<solver, modelFile, removeAttempts, cmd>>
    /\ UNCHANGED <<decVars, mlpVars>>

\* let _ = fs::remove_file(&file_model); result
RemoveFile ==
    /\ pc = "remove"
    /\ removeAttempts' = removeAttempts + 1
    /\ \E removed \in BOOLEAN : modelFile' = (modelFile /\ ~removed)
    /\ pc' = "returned"
    /\ UNCHANGED <<solver, cmd, solFile, readCount, parsed, result>>
    /\ UNCHANGED <<decVars, mlpVars>>

NextRun ==
    \/ WriteLpOk
    \/ WriteLpErr
    \/ CommandSpawnErr
    \/ CommandExitFailure
    \/ CommandExitSuccess
    \/ StdoutPanic
    \/ ReadSolution
    \/ RemoveFile

-----------------------------------------------------------------------------
(* Expressions: the arena of LpExprNode and its root index.  Indices are    *)
(* positions in the arena, 1-based here.                                    *)

\* LpContinuous { name, lower_bound, upper_bound }; an Option is <<>> or <<v>>
LpContinuous(name, lower_bound, upper_bound) ==
    [name |-> name, lower_bound |-> lower_bound, upper_bound |-> upper_bound]

NoVar == LpContinuous("", <<>>, <<>>)

LitVal(c) == [tag |-> "LitVal", lit |-> c, var |-> NoVar, lhs |-> 0, rhs |-> 0]

ConsCont(v) == [tag |-> "ConsCont", lit |-> 0, var |-> v, lhs |-> 0, rhs |-> 0]

LpCompExpr(op, lhs, rhs) == [tag |-> op, lit |-> 0, var |-> NoVar, lhs |-> lhs, rhs |-> rhs]

LpExprOp == {"Multiplication", "Addition", "Subtraction"}

\* builders of LpExpression values: a leaf, and two arenas joined under an operator
Lit(c) == [arena |-> <<LitVal(c)>>, root |-> 1]

Var(v) == [arena |-> <<ConsCont(v)>>, root |-> 1]

Shift(arena, k) ==
    [i \in 1..Len(arena) |->
        IF arena[i].tag \in LpExprOp
        THEN LpCompExpr(arena[i].tag, arena[i].lhs + k, arena[i].rhs + k)
        ELSE arena[i]]

Bin(op, l, r) ==
    [arena |-> l.arena \o Shift(r.arena, Len(l.arena))
                 \o <<LpCompExpr(op, l.root, r.root + Len(l.arena))>>,
     root |-> Len(l.arena) + Len(r.arena) + 1]

\* LpExpression::simplify, as far as the decomposer relies on it: literal
\* arithmetic is folded and a multiplication by a literal gets the literal as
\* its left child.  Children precede their parent in the arenas built by Bin.
FoldLit(op, x, y) ==
    CASE op = "Addition" -> x + y
      [] op = "Subtraction" -> x - y
      [] op = "Multiplication" -> x * y

RECURSIVE SimplifyArena(_, _)
SimplifyArena(arena, i) ==
    IF i > Len(arena)
    THEN arena
    ELSE LET n == arena[i]
         IN  IF n.tag \notin LpExprOp
             THEN SimplifyArena(arena, i + 1)
             ELSE LET l == arena[n.lhs]
                      r == arena[n.rhs]
                      new == IF l.tag = "LitVal" /\ r.tag = "LitVal"
                             THEN LitVal(FoldLit(n.tag, l.lit, r.lit))
                             ELSE IF n.tag = "Multiplication" /\ r.tag = "LitVal"
                                  THEN LpCompExpr(n.tag, n.rhs, n.lhs)
                                  ELSE n
                  IN  SimplifyArena([arena EXCEPT ![i] = new], i + 1)

simplify(expr) == [expr EXCEPT !.arena = SimplifyArena(expr.arena, 1)]

-----------------------------------------------------------------------------
(* VarWithCoeff, VarList and decompose_expression *)

\* f64::NEG_INFINITY and f64::INFINITY: below and above every bound used
NEG_INFINITY == -1000000

INFINITY == 1000000

Max(x, y) == IF x >= y THEN x ELSE y

Min(x, y) == IF x <= y THEN x ELSE y

\* VarWithCoeff::default
VarWithCoeffDefault == [coefficient |-> 0, min |-> NEG_INFINITY, max |-> INFINITY]

\* VarList::default
VarListDefault == [n \in {} |-> VarWithCoeffDefault]

\* an add in which the latest occurrence's bounds replace the entry's
VarListAdd_Overwrite(list, var, coefficient) ==
    LET prev == IF var.name \in DOMAIN list THEN list[var.name] ELSE VarWithCoeffDefault
    IN  Insert(list, var.name,
               [coefficient |-> prev.coefficient + coefficient,
                min |-> IF var.lower_bound # <<>> THEN var.lower_bound[1] ELSE prev.min,
                max |-> IF var.upper_bound # <<>> THEN var.upper_bound[1] ELSE prev.max])

\* VarList::add
VarListAdd(list, var, coefficient) ==
    LET prev == IF var.name \in DOMAIN list THEN list[var.name] ELSE VarWithCoeffDefault
    IN  Insert(list, var.name,
               [coefficient |-> prev.coefficient + coefficient,
                min |-> IF var.lower_bound # <<>>
                        THEN Max(prev.min, var.lower_bound[1]) ELSE prev.min,
                max |-> IF var.upper_bound # <<>>
                        THEN Min(prev.max, var.upper_bound[1]) ELSE prev.max])

\* the locals of decompose_expression before the loop: decomposed, idxs
DecomposeInit(expr) ==
    [idxs |-> <<[factor |-> 1, idx |-> expr.root]>>,
     decomposed |-> VarListDefault,
     at |-> 0,
     res |-> "run",
     msg |-> ""]

Push(stack, factor, idx) == Append(stack, [factor |-> factor, idx |-> idx])

\* the arms of the match on expr.expr_ref_at(idx); `popped` is the state
\* after idxs.pop(), `rest` its stack
ArmConsCont(popped, factor, node) ==
    [popped EXCEPT !.decomposed = VarListAdd(popped.decomposed, node.var, factor)]

ArmMultiplication(expr, popped, factor, node) ==
    IF expr.arena[node.lhs].tag = "LitVal"
    THEN [popped EXCEPT
            !.idxs = Push(popped.idxs, factor * expr.arena[node.lhs].lit, node.rhs)]
    ELSE [popped EXCEPT !.res = "err", !.msg = "Non-simplified multiplication"]

ArmAddition(popped, factor, node) ==
    [popped EXCEPT !.idxs = Push(Push(popped.idxs, factor, node.lhs), factor, node.rhs)]

\* a subtraction arm that forgets to negate the factor of the right branch
ArmSubtraction_SameSign(popped, factor, node) ==
    [popped EXCEPT !.idxs = Push(Push(popped.idxs, factor, node.lhs), factor, node.rhs)]

ArmSubtraction(popped, factor, node) ==
    [popped EXCEPT !.idxs = Push(Push(popped.idxs, factor, node.lhs), 0 - factor, node.rhs)]

\* a last arm that lets a literal pass and goes on with the loop
ArmOther_SkipLiteral(popped, factor, node) ==
    IF node.tag = "LitVal"
    THEN popped
    ELSE [popped EXCEPT !.res = "err", !.msg = "Unsupported expression"]

\* x => return Err(format!("Unsupported expression: {:?}", x))
ArmOther(popped, factor, node) ==
    [popped EXCEPT !.res = "err", !.msg = "Unsupported expression"]

\* one turn of `while let Some((factor, idx)) = idxs.pop()`, or the return
\* of Ok(decomposed) when the stack is empty
DecomposeStep(expr, st) ==
    IF st.idxs = <<>>
    THEN [st EXCEPT !.res = "ok"]
    ELSE LET top == st.idxs[Len(st.idxs)]
             factor == top.factor
             node == expr.arena[top.idx]
             popped == [st EXCEPT !.idxs = SubSeq(st.idxs, 1, Len(st.idxs) - 1),
                                  !.at = top.idx]
         IN  CASE node.tag = "ConsCont" -> ArmConsCont(popped, factor, node)
               [] node.tag = "Multiplication" -> ArmMultiplication(expr, popped, factor, node)
               [] node.tag = "Addition" -> ArmAddition(popped, factor, node)
               [] node.tag = "Subtraction" -> ArmSubtraction(popped, factor, node)
               [] OTHER -> ArmOther(popped, factor, node)

RECURSIVE DecomposeRun(_, _)
DecomposeRun(expr, st) ==
    IF st.res # "run" THEN st ELSE DecomposeRun(expr, DecomposeStep(expr, st))

\* decompose_expression as a whole: simplify, then run the loop to its end
decompose_expression(expr) ==
    LET e == simplify(expr) IN DecomposeRun(e, DecomposeInit(e))

-----------------------------------------------------------------------------
(* Explored expressions *)

VarA == LpContinuous("a", <<>>, <<>>)

VarA_0_10 == LpContinuous("a", <<0>>, <<10>>)

VarA_2_20 == LpContinuous("a", <<2>>, <<20>>)

VarB == LpContinuous("b", <<>>, <<>>)

VarC == LpContinuous("c", <<>>, <<>>)

Leaves == {Var(VarA_0_10), Var(VarA_2_20), Var(VarB), Lit(3)}

\* the trees with k operator nodes, ExprsSplit(k, i) those of them whose left
\* operand has i operator nodes
RECURSIVE ExprsWithOps(_)

ExprsSplit(k, i) ==
    {Bin(op, l, r) : op \in LpExprOp, l \in ExprsWithOps(i), r \in ExprsWithOps(k - 1 - i)}

ExprsWithOps(k) ==
    IF k = 0 THEN Leaves ELSE UNION {ExprsSplit(k, i) : i \in 0..(k - 1)}

\* test_decompose: (4 * (3 * a - b * 2 + a)) * 1 + b
TestDecomposeExpr ==
    Bin("Addition",
        Bin("Multiplication",
            Bin("Multiplication", Lit(4),
                Bin("Addition",
                    Bin("Subtraction",
                        Bin("Multiplication", Lit(3), Var(VarA)),
                        Bin("Multiplication", Var(VarB), Lit(2))),
                    Var(VarA))),
            Lit(1)),
        Var(VarB))

\* decompose_large: lp_sum of the terms &v_i * 2, i = 0 .. n-1
LargeTerm(i) == Bin("Multiplication", Var(LpContinuous("v" \o CharAt(Digits, i + 1), <<>>, <<>>)), Lit(2))

RECURSIVE LargeSum(_)
LargeSum(n) ==
    IF n = 1 THEN LargeTerm(0) ELSE Bin("Addition", LargeSum(n - 1), LargeTerm(n - 1))

\* 2 * a + 3: a literal that is a term of the sum
LiteralTermExpr == Bin("Addition", Bin("Multiplication", Lit(2), Var(VarA)), Lit(3))

NamedExprs == {TestDecomposeExpr, LargeSum(SumTerms), LiteralTermExpr}

NoExpr == [arena |-> <<>>, root |-> 0]

NoDecompose == [idxs |-> <<>>, decomposed |-> VarListDefault, at |-> 0, res |-> "", msg |-> ""]

-----------------------------------------------------------------------------
(* decompose_expression, one loop turn at a time *)

\* the tag of the node the next pop will take, "" when the stack is empty
TopTag ==
    IF dState.idxs = <<>> THEN ""
    ELSE dExpr.arena[dState.idxs[Len(dState.idxs)].idx].tag

Turn ==
    /\ dState' = DecomposeStep(dExpr, dState)
    /\ dpc' = IF dState'.res = "run" THEN "loop" ELSE dState'.res
    /\ UNCHANGED <<dRaw, dExpr>>
    /\ UNCHANGED <<runVars, mlpVars>>

\* expr.simplify(); decomposed = VarList::default(); idxs = vec![(1., root)]
DecomposeStart ==
    /\ dpc = "start"
    /\ dExpr' = simplify(dRaw)
    /\ dState' = DecomposeInit(dExpr')
    /\ dpc' = "loop"
    /\ UNCHANGED dRaw
    /\ UNCHANGED <<runVars, mlpVars>>

TurnConsCont == dpc = "loop" /\ TopTag = "ConsCont" /\ Turn

TurnMultiplication ==
    /\ dpc = "loop"
    /\ TopTag = "Multiplication"
    /\ dExpr.arena[dExpr.arena[dState.idxs[Len(dState.idxs)].idx].lhs].tag = "LitVal"
    /\ Turn

TurnNonSimplified ==
    /\ dpc = "loop"
    /\ TopTag = "Multiplication"
    /\ dExpr.arena[dExpr.arena[dState.idxs[Len(dState.idxs)].idx].lhs].tag # "LitVal"
    /\ Turn

TurnAddition == dpc = "loop" /\ TopTag = "Addition" /\ Turn

TurnSubtraction == dpc = "loop" /\ TopTag = "Subtraction" /\ Turn

TurnUnsupported ==
    dpc = "loop" /\ TopTag \notin (LpExprOp \cup {"ConsCont", ""}) /\ Turn

\* the stack is empty: Ok(decomposed)
DecomposeReturn == dpc = "loop" /\ TopTag = "" /\ Turn

NextDecompose ==
    \/ DecomposeStart
    \/ TurnConsCont
    \/ TurnMultiplication
    \/ TurnNonSimplified
    \/ TurnAddition
    \/ TurnSubtraction
    \/ TurnUnsupported
    \/ DecomposeReturn

-----------------------------------------------------------------------------
(* The backend: minilp::Problem hands out variable indices in creation      *)
(* order, 0, 1, 2, ...                                                      *)

\* minilp::Problem::new
NewProblem(direction) == [direction |-> direction, vars |-> <<>>, constraints |-> <<>>]

\* minilp::Problem::add_var: the variable it returns has the next free index
AddVar(pb, coefficient, min, max) ==
    [pb |-> [pb EXCEPT !.vars = Append(@, [coefficient |-> coefficient,
                                           min |-> min, max |-> max])],
     idx |-> Len(pb.vars)]

\* an iteration order of a HashMap with these keys
Orders(S) ==
    {f \in [1..Cardinality(S) -> S] : \A i, j \in DOMAIN f : f[i] = f[j] => i = j}

direction_to_minilp(objective) ==
    IF objective = "Maximize" THEN "Maximize" ELSE "Minimize"

comparison_to_minilp(op) ==
    CASE op = "GreaterOrEqual" -> "Ge"
      [] op = "LessOrEqual" -> "Le"
      [] op = "Equal" -> "Eq"

NoVariables == [n \in {} |-> 0]

Translated(ok, msg, variables, pb) ==
    [ok |-> ok, msg |-> msg, variables |-> variables, pb |-> pb]

\* the .map(...).collect() of add_objective_to_minilp over vars.0, in `order`
RECURSIVE ObjectiveVars(_, _, _, _, _)
ObjectiveVars(list, order, i, variables, pb) ==
    IF i > Len(order)
    THEN Translated(TRUE, "", variables, pb)
    ELSE LET name == order[i]
             added == AddVar(pb, list[name].coefficient, list[name].min, list[name].max)
         IN  ObjectiveVars(list, order, i + 1, Insert(variables, name, added.idx), added.pb)

add_objective_to_minilp(objective, pb, order) ==
    LET vars_ == decompose_expression(objective)
    IN  IF vars_.res = "err"
        THEN Translated(FALSE, vars_.msg, NoVariables, pb)
        ELSE ObjectiveVars(vars_.decomposed, order, 1, NoVariables, pb)

\* a check that takes any right-hand side, reading 0 where no literal is found
ConstantOf_Unchecked(constant_arena) ==
    LET root == constant_arena.arena[constant_arena.root]
    IN  IF root.tag = "LitVal" THEN <<root.lit>> ELSE <<0>>

\* if let &LitVal(c) = constant_arena.get_root_expr_ref() { c } else { return Err(..) }:
\* <<c>>, or <<>> for the early return
ConstantOf(constant_arena) ==
    LET root == constant_arena.arena[constant_arena.root]
    IN  IF root.tag = "LitVal" THEN <<root.lit>> ELSE <<>>

\* an entry that creates a backend variable for every term, known name or not
EntryOrInsert_Always(variables, pb, name) ==
    LET added == AddVar(pb, 0, NEG_INFINITY, INFINITY)
    IN  [variables |-> Insert(variables, name, added.idx), pb |-> added.pb, var |-> added.idx]

\* variables.entry(name).or_insert_with(|| pb.add_var(0., (NEG_INFINITY, INFINITY))).clone()
EntryOrInsert(variables, pb, name) ==
    IF name \in DOMAIN variables
    THEN [variables |-> variables, pb |-> pb, var |-> variables[name]]
    ELSE LET added == AddVar(pb, 0, NEG_INFINITY, INFINITY)
         IN  [variables |-> Insert(variables, name, added.idx), pb |-> added.pb,
              var |-> added.idx]

\* the loop of add_constraint_to_minilp over expr_variables.0, in `order`,
\* each turn ending with expr.add(var, coefficient)
RECURSIVE ConstraintVars(_, _, _, _, _, _)
ConstraintVars(list, order, i, variables, pb, expr) ==
    IF i > Len(order)
    THEN [variables |-> variables, pb |-> pb, expr |-> expr]
    ELSE LET entry == EntryOrInsert(variables, pb, order[i])
         IN  ConstraintVars(list, order, i + 1, entry.variables, entry.pb,
                            Append(expr, [var |-> entry.var,
                                          coefficient |-> list[order[i]].coefficient]))

add_constraint_to_minilp(constraint, variables, pb, order) ==
    LET constant == ConstantOf(constraint.constant)
    IN  IF constant = <<>>
        THEN Translated(FALSE, "not properly simplified", variables, pb)
        ELSE LET expr_variables == decompose_expression(constraint.expr)
             IN  IF expr_variables.res = "err"
                 THEN Translated(FALSE, expr_variables.msg, variables, pb)
                 ELSE LET done == ConstraintVars(expr_variables.decomposed, order, 1,
                                                 variables, pb, <<>>)
                      IN  Translated(TRUE, "", done.variables,
                                     [done.pb EXCEPT !.constraints =
                                        Append(@, [expr |-> done.expr,
                                                   op |-> comparison_to_minilp(constraint.op),
                                                   constant |-> constant[1]])])

\* the end of problem_to_minilp: ordered_vars = vec![None; len], then
\* ordered_vars[var.idx()] = Some(name); an index past the end panics
OrderedVars(variables) ==
    IF \E name \in DOMAIN variables : variables[name] >= Cardinality(DOMAIN variables)
    THEN <<"panic">>
    ELSE [i \in 1..Cardinality(DOMAIN variables) |->
            LET names == {name \in DOMAIN variables : variables[name] = i - 1}
            IN  IF names = {} THEN <<>> ELSE <<CHOOSE name \in names : TRUE>>]

\* the collect() of solution_from_minilp into HashMap<String, f64>
RECURSIVE Collect(_, _, _, _)
Collect(values, variable_names, i, results) ==
    IF i > Len(values)
    THEN results
    ELSE Collect(values, variable_names, i + 1,
                 Insert(results, variable_names[i][1], values[i]))

solution_from_minilp(backend, variable_names) ==
    CASE backend.kind = "Solution" ->
            IF \E i \in 1..Len(backend.values) : i > Len(variable_names)
            THEN Panic
            ELSE IF \E i \in 1..Len(backend.values) : variable_names[i] = <<>>
                 THEN Err("missing variable name")
                 ELSE Ok("Optimal", Collect(backend.values, variable_names, 1, NoResults))
      [] backend.kind = "Unbounded" -> Ok("Unbounded", NoResults)
      [] backend.kind = "Infeasible" -> Ok("Infeasible", NoResults)

-----------------------------------------------------------------------------
(* Explored problems *)

LpConstraint(expr, op, constant) == [expr |-> expr, op |-> op, constant |-> constant]

\* 10 * a + 20 * b, the objective of test_solve
ObjTestSolve ==
    Bin("Addition", Bin("Multiplication", Lit(10), Var(VarA)),
                    Bin("Multiplication", Lit(20), Var(VarB)))

Objectives ==
    {[objective_type |-> "Minimize", obj_expr_arena |-> <<>>],
     [objective_type |-> "Minimize", obj_expr_arena |-> <<Var(VarA_0_10)>>],
     [objective_type |-> "Maximize", obj_expr_arena |-> <<ObjTestSolve>>],
     [objective_type |-> "Maximize",
      obj_expr_arena |-> <<Bin("Multiplication", Var(VarA), Var(VarB))>>],
     [objective_type |-> "Minimize",
      obj_expr_arena |-> <<Bin("Addition", Bin("Multiplication", Lit(2), Var(VarA)), Lit(3))>>]}

\* left-hand sides with their comparator: 500a - 1000b >= .., a <= ..,
\* b - c = .. (c occurs in no objective), a + 2 <= .. (a literal in the tree)
LeftSides ==
    {<<Bin("Subtraction", Bin("Multiplication", Lit(500), Var(VarA)),
                          Bin("Multiplication", Lit(1000), Var(VarB))), "GreaterOrEqual">>,
     <<Var(VarA_2_20), "LessOrEqual">>,
     <<Bin("Subtraction", Var(VarB), Var(VarC)), "Equal">>,
     <<Bin("Addition", Var(VarA), Lit(2)), "LessOrEqual">>}

\* right-hand sides: a literal, a variable, a sum of literals left unfolded
RightSides == {Lit(5), Var(VarB), Bin("Addition", Lit(2), Lit(3))}

Constraints == {LpConstraint(l[1], l[2], r) : l \in LeftSides, r \in RightSides}

Problems ==
    {[objective_type |-> o.objective_type, obj_expr_arena |-> o.obj_expr_arena,
      constraints |-> cs] : o \in Objectives, cs \in SeqsUpTo(Constraints, MaxConstraints)}

\* the values a found assignment may give a variable
Values == {-20, 5}

BackendResults(n) ==
    {[kind |-> "Solution", values |-> v] : v \in [1..n -> Values]}
    \cup {[kind |-> "Unbounded", values |-> <<>>], [kind |-> "Infeasible", values |-> <<>>]}

NoBackend == [kind |-> "", values |-> <<>>]

-----------------------------------------------------------------------------
(* MiniLpSolver::run: problem_to_minilp, solve, solution_from_minilp *)

\* pb.obj_expr_arena.clone().ok_or("Missing objective")?
MissingObjective ==
    /\ mpc = "start"
    /\ mProblem.obj_expr_arena = <<>>
    /\ mResult' = Err("Missing objective")
    /\ mpc' = "returned"
    /\ UNCHANGED <<mProblem, mNext, mVariables, mPb, mOrdered, mSolved, mBackend>>
    /\ UNCHANGED <<runVars, decVars>>

\* add_objective_to_minilp(objective, &mut minilp_pb)? returned Err
AddObjectiveErr ==
    /\ mpc = "start"
    /\ mProblem.obj_expr_arena # <<>>
    /\ LET t == add_objective_to_minilp(mProblem.obj_expr_arena[1],
                    NewProblem(direction_to_minilp(mProblem.objective_type)), <<>>)
       IN  /\ ~t.ok
           /\ mResult' = Err(t.msg)
    /\ mpc' = "returned"
    /\ UNCHANGED <<mProblem, mNext, mVariables, mPb, mOrdered, mSolved, mBackend>>
    /\ UNCHANGED <<runVars, decVars>>

\* add_objective_to_minilp returned the name -> variable map
AddObjectiveOk ==
    /\ mpc = "start"
    /\ mProblem.obj_expr_arena # <<>>
    /\ LET vars_ == decompose_expression(mProblem.obj_expr_arena[1])
       IN  /\ vars_.res = "ok"
           /\ \E order \in Orders(DOMAIN vars_.decomposed) :
                LET t == add_objective_to_minilp(mProblem.obj_expr_arena[1],
                            NewProblem(direction_to_minilp(mProblem.objective_type)), order)
                IN  /\ mVariables' = t.variables
                    /\ mPb' = t.pb
    /\ mNext' = 1
    /\ mpc' = "constraints"
    /\ UNCHANGED <<mProblem, mOrdered, mSolved, mBackend, mResult>>
    /\ UNCHANGED <<runVars, decVars>>

\* add_constraint_to_minilp(constraint, ..)? returned Err
AddConstraintErr ==
    /\ mpc = "constraints"
    /\ mNext <= Len(mProblem.constraints)
    /\ LET t == add_constraint_to_minilp(mProblem.constraints[mNext], mVariables, mPb, <<>>)
       IN  /\ ~t.ok
           /\ mResult' = Err(t.msg)
    /\ mpc' = "returned"
    /\ UNCHANGED <<mProblem, mNext, mVariables, mPb, mOrdered, mSolved, mBackend>>
    /\ UNCHANGED <<runVars, decVars>>

\* add_constraint_to_minilp returned Ok(())
AddConstraintOk ==
    /\ mpc = "constraints"
    /\ mNext <= Len(mProblem.constraints)
    /\ LET c == mProblem.constraints[mNext]
           expr_variables == decompose_expression(c.expr)
       IN  /\ ConstantOf(c.constant) # <<>>
           /\ expr_variables.res = "ok"
           /\ \E order \in Orders(DOMAIN expr_variables.decomposed) :
                LET t == add_constraint_to_minilp(c, mVariables, mPb, order)
                IN  /\ mVariables' = t.variables
                    /\ mPb' = t.pb
    /\ mNext' = mNext + 1
    /\ UNCHANGED <<mProblem, mpc, mOrdered, mSolved, mBackend, mResult>>
    /\ UNCHANGED <<runVars, decVars>>

\* the loop is over: build ordered_vars and return Ok((minilp_pb, ordered_vars))
OrderVars ==
    /\ mpc = "constraints"
    /\ mNext > Len(mProblem.constraints)
    /\ mOrdered' = OrderedVars(mVariables)
    /\ IF mOrdered' = <<"panic">>
       THEN mpc' = "panicked" /\ mResult' = Panic
       ELSE mpc' = "solve" /\ UNCHANGED mResult
    /\ UNCHANGED <<mProblem, mNext, mVariables, mPb, mSolved, mBackend>>
    /\ UNCHANGED <<runVars, decVars>>

\* minilp_pb.solve()
Solve ==
    /\ mpc = "solve"
    /\ mSolved' = TRUE
    /\ mBackend' \in BackendResults(Len(mPb.vars))
    /\ mpc' = "solution"
    /\ UNCHANGED <<mProblem, mNext, mVariables, mPb, mOrdered, mResult>>
    /\ UNCHANGED <<runVars, decVars>>

\* solution_from_minilp(minilp_result, variable_names)
SolutionFromMinilp ==
    /\ mpc = "solution"
    /\ mResult' = solution_from_minilp(mBackend, mOrdered)
    /\ mpc' = IF mResult'.kind = "Panic" THEN "panicked" ELSE "returned"
    /\ UNCHANGED <<mProblem, mNext, mVariables, mPb, mOrdered, mSolved, mBackend>>
    /\ UNCHANGED <<runVars, decVars>>

NextMinilp ==
    \/ MissingObjective
    \/ AddObjectiveErr
    \/ AddObjectiveOk
    \/ AddConstraintErr
    \/ AddConstraintOk
    \/ OrderVars
    \/ Solve
    \/ SolutionFromMinilp

-----------------------------------------------------------------------------
(* Specifications.  Each one runs one part of the program; the variables of *)
(* the other parts stay at rest.                                            *)

\* GlpkSolver::run and GurobiSolver::run
Init ==
    /\ solver \in {"Glpk", "Gurobi"}
    /\ pc = "start"
    /\ modelFile = FALSE
    /\ removeAttempts = 0
    /\ cmd = NoCmd
    /\ solFile = NoFile
    /\ readCount = 0
    /\ parsed = None
    /\ result = None
    /\ dRaw = NoExpr /\ dExpr = NoExpr /\ dState = NoDecompose /\ dpc = "idle"
    /\ mProblem = [objective_type |-> "Minimize", obj_expr_arena |-> <<>>, constraints |-> <<>>]
    /\ mpc = "idle" /\ mNext = 0 /\ mVariables = NoVariables
    /\ mPb = NewProblem("Minimize") /\ mOrdered = <<>> /\ mSolved = FALSE
    /\ mBackend = NoBackend /\ mResult = None

Next == NextRun

Spec == Init /\ [][Next]_vars

\* decompose_expression
InitDecompose ==
    /\ \/ dRaw \in Leaves \cup NamedExprs
       \/ \E k \in 1..MaxOps : \E i \in 0..(k - 1) : dRaw \in ExprsSplit(k, i)
    /\ dExpr = NoExpr
    /\ dState = NoDecompose
    /\ dpc = "start"
    /\ solver = "" /\ pc = "idle" /\ modelFile = FALSE /\ removeAttempts = 0
    /\ cmd = NoCmd /\ solFile = NoFile /\ readCount = 0 /\ parsed = None /\ result = None
    /\ mProblem = [objective_type |-> "Minimize", obj_expr_arena |-> <<>>, constraints |-> <<>>]
    /\ mpc = "idle" /\ mNext = 0 /\ mVariables = NoVariables
    /\ mPb = NewProblem("Minimize") /\ mOrdered = <<>> /\ mSolved = FALSE
    /\ mBackend = NoBackend /\ mResult = None

SpecDecompose == InitDecompose /\ [][NextDecompose]_vars

\* MiniLpSolver::run
InitMinilp ==
    /\ mProblem \in Problems
    /\ mpc = "start"
    /\ mNext = 0
    /\ mVariables = NoVariables
    /\ mPb = NewProblem("Minimize")
    /\ mOrdered = <<>>
    /\ mSolved = FALSE
    /\ mBackend = NoBackend
    /\ mResult = None
    /\ solver = "" /\ pc = "idle" /\ modelFile = FALSE /\ removeAttempts = 0
    /\ cmd = NoCmd /\ solFile = NoFile /\ readCount = 0 /\ parsed = None /\ result = None
    /\ dRaw = NoExpr /\ dExpr = NoExpr /\ dState = NoDecompose /\ dpc = "idle"

SpecMinilp == InitMinilp /\ [][NextMinilp]_vars

-----------------------------------------------------------------------------
(* Properties of the external-process adapters, checked under Spec *)

Exited == pc \in {"returned", "panicked"}

\* the exit paths after the model file was written: the command could not be
\* spawned, or it ran (and failed, or left a solution file to be read)
AfterWriteLp == result = SpawnError(solver) \/ cmd.spawned

\* C1: on every exit path of run after the model file was written (spawn
\* failure, nonzero exit, solution file missing, unparsable or parsed),
\* fs::remove_file of the model file was attempted exactly once before the
\* call ended.
C1_RemovedOnEveryExit == (Exited /\ AfterWriteLp) => removeAttempts = 1

\* C2: when the command exits with a failure status, run returns an Err whose
\* message carries the command's standard output and standard error, and the
\* solution file is not read in that call.
C2_FailureCarriesOutput ==
    (pc \in {"remove", "returned"} /\ cmd.spawned /\ ~Success(cmd.code)) =>
        /\ result.kind = "Err"
        /\ contains(result.msg, Lossy(cmd.stdout))
        /\ contains(result.msg, Lossy(cmd.stderr))
        /\ readCount = 0

\* the table of status tokens and unified statuses
StatusTable ==
    ("INTEGER OPTIMAL" :> "Optimal") @@ ("OPTIMAL" :> "Optimal")
    @@ ("INFEASIBLE (FINAL)" :> "Infeasible") @@ ("INTEGER EMPTY" :> "Infeasible")
    @@ ("UNDEFINED" :> "NotSolved")
    @@ ("INTEGER UNDEFINED" :> "Unbounded") @@ ("UNBOUNDED" :> "Unbounded")

\* the text from character offset 12 of the status line, <<>> when there is none
StatusToken(f) ==
    IF Len(f) >= 5 /\ f[5].ok /\ Len(f[5].text) >= 12
    THEN <<SubSeq(f[5].text, 13, Len(f[5].text))>>
    ELSE <<>>

TokensOf(f, i) == IF i <= Len(f) /\ f[i].ok THEN split_whitespace(f[i].text) ELSE <<>>

CountOk(f, i) == Len(TokensOf(f, i)) >= 2 /\ parse_usize(TokensOf(f, i)[2]).ok

\* the ways a GLPK solution file can be malformed
GlpkMalformed(f) ==
    \/ ~CountOk(f, 2)
    \/ ~CountOk(f, 3)
    \/ Len(f) < 5 \/ ~f[5].ok
    \/ Len(f[5].text) < 12
    \/ StatusToken(f)[1] \notin DOMAIN StatusTable
    \/ LET row == parse_usize(TokensOf(f, 2)[2]).val
           col == parse_usize(TokensOf(f, 3)[2]).val
           first == 5 + row + 7 + 1
       IN  \/ Len(f) < first + col - 1
           \/ \E i \in first..(first + col - 1) :
                \/ Len(TokensOf(f, i)) < 4
                \/ ~parse_float(TokensOf(f, i)[4]).ok

\* the ways a Gurobi solution file can be malformed
GurobiMalformed(f) ==
    \/ Len(f) = 0
    \/ \E i \in 2..Len(f) :
          /\ f[i].ok
          /\ ~(Len(f[i].text) > 0 /\ CharAt(f[i].text, 1) = "#")
          /\ \/ Len(TokensOf(f, i)) # 2
             \/ ~parse_float(TokensOf(f, i)[2]).ok

\* C3: the status token of a GLPK solution file maps to the unified status of
\* the table; a file that is well formed with a listed token parses to a
\* Solution with that status, and an unlisted token gives Err, never a
\* Solution.
C3_StatusTokenMapped ==
    (solver = "Glpk" /\ readCount = 1 /\ StatusToken(solFile.lines) # <<>>) =>
        LET token == StatusToken(solFile.lines)[1]
        IN  IF token \in DOMAIN StatusTable
            THEN /\ parsed.kind = "Ok" => parsed.status = StatusTable[token]
                 /\ ~GlpkMalformed(solFile.lines) => parsed.kind = "Ok"
            ELSE /\ parsed.kind = "Err"
                 /\ (CountOk(solFile.lines, 2) /\ CountOk(solFile.lines, 3)) =>
                        parsed.msg = "Incorrect solution format: Unknown solution status"

C3_Witness ==
    /\ solver = "Glpk"
    /\ pc = "returned"
    /\ StatusToken(solFile.lines) = <<"INTEGER UNDEFINED">>
    /\ result.kind = "Ok"
    /\ result.status = "Unbounded"
    /\ DOMAIN result.results = {"a", "b"}

\* C7: when the Gurobi command exits successfully and the solution file
\* parses, the Solution run returns has the status derived from standard
\* output (Optimal, else Infeasible, else SubOptimal) and the parsed values.
C7_StdoutStatusWins ==
    (solver = "Gurobi" /\ pc \in {"remove", "returned"} /\ cmd.spawned
        /\ Success(cmd.code) /\ parsed.kind = "Ok") =>
        /\ result.kind = "Ok"
        /\ result.results = parsed.results
        /\ result.status =
              IF contains(cmd.stdout.text, "Optimal solution found") THEN "Optimal"
              ELSE IF contains(cmd.stdout.text, "infesible") THEN "Infeasible"
              ELSE "SubOptimal"

C7_Witness ==
    /\ solver = "Gurobi"
    /\ pc = "returned"
    /\ parsed.kind = "Ok"
    /\ parsed.status = "Optimal"
    /\ result.kind = "Ok"
    /\ result.status = "SubOptimal"
    /\ DOMAIN result.results = {"a", "b"}

\* C9: every malformed solution file makes read_specific_solution return Err.
C9_MalformedIsErr ==
    (readCount = 1 /\ IF solver = "Glpk" THEN GlpkMalformed(solFile.lines)
                                         ELSE GurobiMalformed(solFile.lines)) =>
        parsed.kind = "Err"

-----------------------------------------------------------------------------
(* Properties of decompose_expression, checked under SpecDecompose *)

Returned == dpc \in {"ok", "err"}

\* the tree under idx holds only variable references, additions, subtractions
\* and multiplications whose left child is a literal
RECURSIVE Linear(_, _)
Linear(expr, idx) ==
    LET node == expr.arena[idx]
    IN  CASE node.tag = "ConsCont" -> TRUE
          [] node.tag = "Multiplication" ->
                expr.arena[node.lhs].tag = "LitVal" /\ Linear(expr, node.rhs)
          [] node.tag \in {"Addition", "Subtraction"} ->
                Linear(expr, node.lhs) /\ Linear(expr, node.rhs)
          [] OTHER -> FALSE

\* the occurrences of variables under idx, each with the product of the
\* literal multipliers on its path, negated once per right branch of a
\* subtraction
RECURSIVE Occurrences(_, _, _)
Occurrences(expr, idx, weight) ==
    LET node == expr.arena[idx]
    IN  CASE node.tag = "ConsCont" -> <<[var |-> node.var, weight |-> weight]>>
          [] node.tag = "Multiplication" ->
                Occurrences(expr, node.rhs, weight * expr.arena[node.lhs].lit)
          [] node.tag = "Addition" ->
                Occurrences(expr, node.lhs, weight) \o Occurrences(expr, node.rhs, weight)
          [] node.tag = "Subtraction" ->
                Occurrences(expr, node.lhs, weight) \o Occurrences(expr, node.rhs, 0 - weight)
          [] OTHER -> <<>>

RECURSIVE WeightOf(_, _, _)
WeightOf(occ, name, i) ==
    IF i > Len(occ) THEN 0
    ELSE (IF occ[i].var.name = name THEN occ[i].weight ELSE 0) + WeightOf(occ, name, i + 1)

NamesIn(occ) == {occ[i].var.name : i \in DOMAIN occ}

\* C4: for a canonical tree of variable references under Add, Subtract and
\* Multiply-by-literal, decompose_expression returns one entry per distinct
\* name, whose coefficient is the sum of the path weights of its occurrences;
\* test_decompose gives a -> 16, b -> -7 and a sum of n distinct terms gives
\* n entries.
C4_CoefficientPerVariable ==
    /\ (Returned /\ Linear(dExpr, dExpr.root)) =>
          LET occ == Occurrences(dExpr, dExpr.root, 1)
          IN  /\ dpc = "ok"
              /\ DOMAIN dState.decomposed = NamesIn(occ)
              /\ \A name \in NamesIn(occ) :
                    dState.decomposed[name].coefficient = WeightOf(occ, name, 1)
    /\ (Returned /\ dRaw = TestDecomposeExpr) =>
          /\ dpc = "ok"
          /\ DOMAIN dState.decomposed = {"a", "b"}
          /\ dState.decomposed["a"].coefficient = 16
          /\ dState.decomposed["b"].coefficient = -7
    /\ (Returned /\ dRaw = LargeSum(SumTerms)) =>
          /\ dpc = "ok"
          /\ Cardinality(DOMAIN dState.decomposed) = SumTerms

C4_Witness ==
    /\ dRaw = TestDecomposeExpr
    /\ dpc = "ok"
    /\ Linear(dExpr, dExpr.root)
    /\ dState.decomposed["a"].coefficient = 16
    /\ dState.decomposed["b"].coefficient = -7

\* the node the loop took last is a literal
MetLiteral == dState.at > 0 /\ dExpr.arena[dState.at].tag = "LitVal"

\* a literal lies where the traversal goes: anywhere but as the left child of
\* a multiplication
RECURSIVE TraversedLiteral(_, _)
TraversedLiteral(expr, idx) ==
    LET node == expr.arena[idx]
    IN  CASE node.tag = "LitVal" -> TRUE
          [] node.tag = "Multiplication" ->
                expr.arena[node.lhs].tag = "LitVal" /\ TraversedLiteral(expr, node.rhs)
          [] node.tag \in {"Addition", "Subtraction"} ->
                TraversedLiteral(expr, node.lhs) \/ TraversedLiteral(expr, node.rhs)
          [] OTHER -> FALSE

MaxOfSet(S) == CHOOSE x \in S : \A y \in S : y <= x

MinOfSet(S) == CHOOSE x \in S : \A y \in S : x <= y

LowerBounds(occ, name) ==
    {occ[i].var.lower_bound[1] :
        i \in {j \in DOMAIN occ : occ[j].var.name = name /\ occ[j].var.lower_bound # <<>>}}

UpperBounds(occ, name) ==
    {occ[i].var.upper_bound[1] :
        i \in {j \in DOMAIN occ : occ[j].var.name = name /\ occ[j].var.upper_bound # <<>>}}

\* C6: the bounds of an entry are the intersection of the bounds of all the
\* occurrences added to it, starting from (-infinity, +infinity), whatever
\* the order of the occurrences.
C6_BoundsIntersect ==
    dpc = "ok" =>
        LET occ == Occurrences(dExpr, dExpr.root, 1)
        IN  \A name \in DOMAIN dState.decomposed :
                /\ dState.decomposed[name].min
                      = MaxOfSet({NEG_INFINITY} \cup LowerBounds(occ, name))
                /\ dState.decomposed[name].max
                      = MinOfSet({INFINITY} \cup UpperBounds(occ, name))

C6_Witness ==
    /\ dpc = "ok"
    /\ dRaw = Bin("Addition", Var(VarA_0_10), Var(VarA_2_20))
    /\ dState.decomposed["a"].coefficient = 2
    /\ dState.decomposed["a"].min = 2
    /\ dState.decomposed["a"].max = 10

-----------------------------------------------------------------------------
(* Properties of the in-process adapter, checked under SpecMinilp *)

\* the right-hand side does not reduce to a single literal after simplification
BadRightSide(c) ==
    LET e == simplify(c.constant) IN e.arena[e.root].tag # "LitVal"

BadPositions == {k \in DOMAIN mProblem.constraints : BadRightSide(mProblem.constraints[k])}

\* the objective and the left-hand sides before position k all decompose
TranslatesBefore(k) ==
    /\ mProblem.obj_expr_arena # <<>>
    /\ decompose_expression(mProblem.obj_expr_arena[1]).res = "ok"
    /\ \A j \in 1..(k - 1) : decompose_expression(mProblem.constraints[j].expr).res = "ok"

\* C8 as stated: a problem with such a constraint, at any position, fails
\* with the 'not properly simplified' error.
C8_NotSimplifiedError ==
    (mpc = "returned" /\ BadPositions # {}) => mResult = Err("not properly simplified")

\* C8 as amended: a problem with such a constraint, at any position, never
\* has its backend solved and returns Err, never a Solution; the error is
\* 'not properly simplified' whenever the objective and the left-hand sides
\* of the earlier constraints decompose.
C8_BadRightSideFails ==
    BadPositions # {} =>
        /\ ~mSolved
        /\ mResult.kind \in {"None", "Err"}
        /\ mpc \notin {"solve", "solution", "panicked"}
        /\ mpc = "returned" =>
              /\ mResult.kind = "Err"
              /\ \A k \in BadPositions :
                    TranslatesBefore(k) => mResult.msg = "not properly simplified"

C8_Witness ==
    /\ mpc = "returned"
    /\ Len(mProblem.constraints) = 2
    /\ BadPositions = {2}
    /\ Len(mPb.constraints) = 1
    /\ mResult = Err("not properly simplified")

\* the names of the variable references under idx
RECURSIVE VarNames(_, _)
VarNames(expr, idx) ==
    LET node == expr.arena[idx]
    IN  CASE node.tag = "ConsCont" -> {node.var.name}
          [] node.tag \in LpExprOp -> VarNames(expr, node.lhs) \cup VarNames(expr, node.rhs)
          [] OTHER -> {}

ProblemNames ==
    (IF mProblem.obj_expr_arena = <<>> THEN {}
     ELSE VarNames(mProblem.obj_expr_arena[1], mProblem.obj_expr_arena[1].root))
    \cup UNION {VarNames(mProblem.constraints[k].expr, mProblem.constraints[k].expr.root) :
                    k \in DOMAIN mProblem.constraints}

\* problem_to_minilp returned Ok
TranslatedOk == mpc \in {"solve", "solution"} \/ (mpc = "returned" /\ mSolved)

\* C10: after a successful translation the ordered name list is a bijection
\* between the backend indices 0..n-1 and the distinct names of the problem,
\* with no empty entry; during translation every backend variable has one
\* name; a found assignment is read back as one value per name, never as the
\* 'missing variable name' error.
C10_NamesBijective ==
    /\ mpc \in {"constraints", "solve", "solution"} =>
          /\ Len(mPb.vars) = Cardinality(DOMAIN mVariables)
          /\ {mVariables[name] : name \in DOMAIN mVariables} = 0..(Len(mPb.vars) - 1)
    /\ mpc # "panicked"
    /\ TranslatedOk =>
          /\ Len(mOrdered) = Len(mPb.vars)
          /\ Len(mOrdered) = Cardinality(ProblemNames)
          /\ \A i \in DOMAIN mOrdered : mOrdered[i] # <<>>
          /\ {mOrdered[i][1] : i \in DOMAIN mOrdered} = ProblemNames
          /\ \A name \in ProblemNames : mOrdered[mVariables[name] + 1] = <<name>>
    /\ (mpc = "returned" /\ mSolved /\ mBackend.kind = "Solution") =>
          /\ mResult.kind = "Ok"
          /\ mResult.status = "Optimal"
          /\ DOMAIN mResult.results = ProblemNames
          /\ \A name \in ProblemNames :
                mResult.results[name] = mBackend.values[mVariables[name] + 1]

C10_Witness ==
    /\ mpc = "returned"
    /\ mSolved
    /\ mBackend.kind = "Solution"
    /\ Len(mProblem.constraints) = 2
    /\ ProblemNames = {"a", "b", "c"}
    /\ DOMAIN mResult.results = {"a", "b", "c"}
    /\ mVariables["c"] = 2
    /\ mResult.results["a"] # mResult.results["b"]

====
